---- MODULE Spec2Model ----
(***************************************************************************)
(* Model of the syscall event source of the capsule8 sensor                *)
(* (pkg/sensor: syscall probe registration, the dummy sys_enter            *)
(* tracepoint and its reference count, one-time tracepoint name            *)
(* resolution).  Every subscription is a thread; each labelled step below  *)
(* is one atomic operation of the Go code (an atomic.AddInt64, one call    *)
(* into the EventMonitor, one plain load or store of a shared variable).   *)
(* The last part models the start of examples/telemetryd, which forwards   *)
(* the sensor's events to a Cloud Pub/Sub topic.                           *)
(***************************************************************************)
EXTENDS Integers, FiniteSets, Sequences, TLC

\* ---------------------------------------------------------------- bounds
\* Subscriptions (threads) that use the sensor concurrently.
NSubs == 2
\* Register...EventFilter calls made in one run, over all subscriptions.
MaxCalls == 2
\* Releases issued beyond the acquired ones (SpecOver only).
MaxOver == 1
\* Length of the -pubsub path, in tokens (SpecMain only).
MaxPathLen == 7
\* Events the sensor delivers to telemetryd's callback (SpecMain only).
MaxEvents == 2

Subs == 1..NSubs

\* ------------------------------------------------------------- constants
KernelMajors == {2, 3}
GlobalStrategyMajor == 3
ContainerCacheEventGroupID == 1000
NoEventGroup == 0
RawEnterName == "raw_syscalls/sys_enter"
RawExitName == "raw_syscalls/sys_exit"
SysEnterName == "syscalls/sys_enter"
SysExitName == "syscalls/sys_exit"
syscallNewEnterKprobeAddress == "syscall_trace_enter_phase1"
syscallOldEnterKprobeAddress == "syscall_trace_enter"
syscallEnterKprobeFetchargs == "id=+120(%di):s64 arg0=+112(%di):u64 arg1=+104(%di):u64 arg2=+96(%di):u64 arg3=+56(%di):u64 arg4=+72(%di):u64 arg5=+64(%di):u64"
DummyFilter == "id == 0x7fffffff"
\* The handler both dummy registrations pass to RegisterTracepoint.
DummyHandler_Enter == "handleSyscallTraceEnter"
DummyHandler == "handleDummySysEnter"

VARIABLES
    \* environment: the running kernel
    major,                  \* sys.KernelVersion() major
    rawExists,              \* DoesTracepointExist("raw_syscalls/sys_enter")
    sysExists,              \* DoesTracepointExist("syscalls/sys_enter")
    symAvail,               \* IsKernelSymbolAvailable("syscall_trace_enter_phase1")
    \* package-level state
    onceState,              \* syscallOnce: "idle", "running", "done"
    syscallEnterName,
    syscallExitName,
    aborted,                \* glog.Fatal has terminated the process
    \* sensor state
    dummySyscallEventCount,
    dummySyscallEventID,
    \* the EventMonitor (tracing engine)
    events,                 \* registered events, a set of records
    nextID,                 \* next event id the engine hands out
    \* per-subscription thread state
    pc,
    op,                     \* which Register...EventFilter call is running
    result,                 \* local "result" of RegisterSyscallEnterEventFilter
    acqID,                  \* local "eventID" of registerGlobalDummySyscallEvent
    relID,                  \* local "eventID" of the unregister closure
    retpc,                  \* where the unregister closure returns to
    eventGroupID,           \* s.eventGroupID
    sinks,                  \* event sinks owned by the subscription
    \* observation (history) variables
    calls,                  \* Register...EventFilter calls made so far
    initRuns,               \* times initSyscallNames was entered
    regCalls,               \* RegisterTracepoint calls for the global dummy
    unregCalls,             \* UnregisterEvent calls made by the closure
    requested,              \* some other registration request was submitted
    namesRead,              \* (enter, exit) pairs seen by callers past Do
    relStarted,             \* some release closure has been invoked
    overlapped,             \* an acquire ran while or after a release had
                            \* started
    rejected,               \* the engine rejected a global dummy registration
    acquired,               \* global dummy acquires that returned success
    over,                   \* releases issued beyond the acquired ones
    hooksAtClose,           \* sinks carrying the hook when Close was called
    tdReleases,             \* hooks the teardown of a subscription has run
    \* a collection thread of the engine
    sample,                 \* the sample handed to a handler, or NoSample
    handled,                \* the handler has returned
    dispatched,             \* DispatchEvent calls the handler has made
    \* examples/telemetryd
    mpc,                    \* position of main
    pubsubPath,             \* flags.pubsubPath, a sequence of tokens
    topic,                  \* main's local "topic"
    err,                    \* main's local "err" after connectToPubsubTopic
    nEvents,
    connectReturned,        \* connectToPubsubTopic has returned to main
    nilPublish              \* Publish was called on a nil topic

envVars == <<major, rawExists, sysExists, symAvail>>
nameVars == <<onceState, syscallEnterName, syscallExitName, initRuns>>
sensorVars == <<dummySyscallEventCount, dummySyscallEventID>>
engineVars == <<events, nextID>>
localVars == <<op, result, acqID, relID, retpc, eventGroupID, sinks>>
histVars == <<calls, regCalls, unregCalls, requested, namesRead, relStarted,
              overlapped, rejected, acquired, over>>
tdVars == <<hooksAtClose, tdReleases>>
decodeVars == <<sample, handled, dispatched>>
mainVars == <<mpc, pubsubPath, topic, err, nEvents, connectReturned,
              nilPublish>>
vars == <<envVars, nameVars, aborted, sensorVars, engineVars, pc, localVars,
          histVars, tdVars, decodeVars, mainVars>>

NoSample == [handler |-> "none", initOK |-> FALSE, fields |-> <<>>]

\* A nil *pubsub.Topic, and the topic c.Topic(name) of a client of project.
NilTopic == [nil |-> TRUE, project |-> <<>>, name |-> <<>>]
Topic(project, name) == [nil |-> FALSE, project |-> project, name |-> name]
NilError == "nil"

AcquirePCs == {"g_reg", "g_store", "g_rollback"}
ReleasePCs == {"r_read", "r_add", "r_unreg"}

\* ------------------------------------------------------------ the engine
\* EventMonitor.RegisterTracepoint / RegisterKprobe: a fresh id is returned
\* and the event becomes live.
EngineRegister(probe) ==
    events \cup {[probe EXCEPT !.id = nextID]}

\* The request of a RegisterTracepoint(name, handler, group, filter) call.
Tracepoint(kind, name, handler, group, filter, owner) ==
    [id |-> 0, kind |-> kind, name |-> name, handler |-> handler,
     group |-> group, filter |-> filter, owner |-> owner,
     fetchargs |-> "", isReturn |-> FALSE]

\* The request of a registerKprobe(symbol, isReturn, fetchargs, handler, ...)
\* call.
Kprobe(symbol, isReturn, fetchargs, handler, group, owner) ==
    [id |-> 0, kind |-> "kprobe", name |-> symbol, handler |-> handler,
     group |-> group, filter |-> "", owner |-> owner,
     fetchargs |-> fetchargs, isReturn |-> isReturn]

\* EventMonitor.UnregisterEvent(id): the event with that id, if any, is gone.
EngineUnregister(id) ==
    {e \in events : e.id # id}

LiveGlobalDummies == {e \in events : e.kind = "gdummy"}
LiveLocalDummies == {e \in events : e.kind = "ldummy"}

\* ------------------------------------------------------------------ Init
SensorInit ==
    /\ major \in KernelMajors
    /\ rawExists \in BOOLEAN
    /\ sysExists \in BOOLEAN
    /\ symAvail \in BOOLEAN
    /\ onceState = "idle"
    /\ syscallEnterName = ""
    /\ syscallExitName = ""
    /\ aborted = FALSE
    /\ dummySyscallEventCount = 0
    /\ dummySyscallEventID = 0
    /\ events = {}
    /\ nextID = 1
    /\ pc = [s \in Subs |-> "idle"]
    /\ op = [s \in Subs |-> "none"]
    /\ result = [s \in Subs |-> FALSE]
    /\ acqID = [s \in Subs |-> 0]
    /\ relID = [s \in Subs |-> 0]
    /\ retpc = [s \in Subs |-> "idle"]
    /\ calls = 0
    /\ eventGroupID = [s \in Subs |-> NoEventGroup]
    /\ sinks = [s \in Subs |-> {}]
    /\ initRuns = 0
    /\ regCalls = 0
    /\ unregCalls = 0
    /\ requested = FALSE
    /\ namesRead = {}
    /\ relStarted = FALSE
    /\ overlapped = FALSE
    /\ rejected = FALSE
    /\ acquired = 0
    /\ over = 0
    /\ hooksAtClose = [s \in Subs |-> 0]
    /\ tdReleases = [s \in Subs |-> 0]
    /\ sample = NoSample
    /\ handled = FALSE
    /\ dispatched = <<>>

\* telemetryd at the entry of main: nothing connected, nothing received.
MainStart ==
    /\ mpc = "start"
    /\ topic = NilTopic
    /\ err = NilError
    /\ nEvents = 0
    /\ connectReturned = FALSE
    /\ nilPublish = FALSE

\* The -pubsub flag defaults to the empty string.
Init == SensorInit /\ pubsubPath = <<>> /\ MainStart

\* ------------------------------------------------ helpers of the handlers
\* Frames: everything a step of one kind leaves alone.
EnvFrame == UNCHANGED <<envVars, aborted>>
TeardownFrame == UNCHANGED tdVars
DecoderFrame == UNCHANGED decodeVars
MainFrame == UNCHANGED mainVars
NamesFrame == UNCHANGED <<onceState, syscallEnterName, syscallExitName, initRuns>>

\* sync.Once.Do lets a caller through only after f has returned.
OncePasses_Early(st) == st # "idle"
OncePasses(st) == st = "done"

\* Where a Register...EventFilter call continues after syscallOnce.Do.
AfterOnce(o) == IF o = "enter" THEN "dummy" ELSE "exit_tp"

\* atomic.AddInt64(&count, 1) == 1
IsFirstAcquire_Always(n) == n >= 1
IsFirstAcquire(n) == n = 1

\* atomic.AddInt64(&count, -1) == 0
IsLastRelease_AtMost(n) == n <= 0
IsLastRelease(n) == n = 0

\* atomic.AddInt64(&count, -1) on the failure path of the acquire
RolledBack_Kept(n) == n
RolledBack(n) == n - 1

\* atomic.AddInt64(&count, -1) of the unregister closure
Released_Kept(n) == n
Released(n) == n - 1

\* "if result { ... registerKprobe ... }"
AfterAcquire_Always(r) == "kprobe"
AfterAcquire(r) == IF r THEN "kprobe" ELSE "idle"

\* "if major < 3 { local } else { global }"
UsesGlobalDummy_Always(m) == TRUE
UsesGlobalDummy_Never(m) == FALSE
UsesGlobalDummy(m) == ~(m < GlobalStrategyMajor)

\* kprobeSymbol selection
KprobeSymbol_NewOnly(avail) == syscallNewEnterKprobeAddress
KprobeSymbol(avail) ==
    IF avail THEN syscallNewEnterKprobeAddress ELSE syscallOldEnterKprobeAddress

NamePair == <<syscallEnterName, syscallExitName>>

\* ------------------------------------- Register...EventFilter entry points
RegisterSyscallEnterEventFilter(s) ==
    /\ ~aborted
    /\ pc[s] = "idle"
    /\ calls < MaxCalls
    /\ pc' = [pc EXCEPT ![s] = "once"]
    /\ op' = [op EXCEPT ![s] = "enter"]
    /\ result' = [result EXCEPT ![s] = FALSE]
    /\ calls' = calls + 1
    /\ TeardownFrame /\ DecoderFrame /\ MainFrame
    /\ EnvFrame /\ NamesFrame
    /\ UNCHANGED <<sensorVars, engineVars, acqID, relID, retpc, eventGroupID,
                   sinks, regCalls, unregCalls, requested, namesRead,
                   relStarted, overlapped, rejected, acquired, over>>

RegisterSyscallExitEventFilter(s) ==
    /\ ~aborted
    /\ pc[s] = "idle"
    /\ calls < MaxCalls
    /\ pc' = [pc EXCEPT ![s] = "once"]
    /\ op' = [op EXCEPT ![s] = "exit"]
    /\ calls' = calls + 1
    /\ TeardownFrame /\ DecoderFrame /\ MainFrame
    /\ EnvFrame /\ NamesFrame
    /\ UNCHANGED <<sensorVars, engineVars, result, acqID, relID, retpc,
                   eventGroupID, sinks, regCalls, unregCalls, requested,
                   namesRead, relStarted, overlapped, rejected, acquired, over>>

\* ------------------------------------------------------ syscallOnce.Do(f)
\* The first caller runs f; a caller arriving while f runs blocks.
OnceDoFirst(s) ==
    /\ ~aborted
    /\ pc[s] = "once"
    /\ onceState = "idle"
    /\ onceState' = "running"
    /\ initRuns' = initRuns + 1
    /\ pc' = [pc EXCEPT ![s] = "init1"]
    /\ TeardownFrame /\ DecoderFrame /\ MainFrame
    /\ EnvFrame
    /\ UNCHANGED <<syscallEnterName, syscallExitName, sensorVars, engineVars,
                   localVars, histVars>>

OnceDoPass(s) ==
    /\ ~aborted
    /\ pc[s] = "once"
    /\ onceState # "idle"
    /\ OncePasses(onceState)
    /\ pc' = [pc EXCEPT ![s] = AfterOnce(op[s])]
    /\ op' = [op EXCEPT ![s] = "none"]
    /\ namesRead' = namesRead \cup {NamePair}
    /\ TeardownFrame /\ DecoderFrame /\ MainFrame
    /\ EnvFrame /\ NamesFrame
    /\ UNCHANGED <<sensorVars, engineVars, result, acqID, relID, retpc, calls,
                   eventGroupID, sinks, regCalls, unregCalls, requested,
                   relStarted, overlapped, rejected, acquired, over>>

\* ------------------------------------------------------ initSyscallNames
\* syscallEnterName = "raw_syscalls/sys_enter"
InitSetRaw(s) ==
    /\ ~aborted
    /\ pc[s] = "init1"
    /\ syscallEnterName' = RawEnterName
    /\ pc' = [pc EXCEPT ![s] = "init2"]
    /\ TeardownFrame /\ DecoderFrame /\ MainFrame
    /\ EnvFrame
    /\ UNCHANGED <<onceState, syscallExitName, initRuns, sensorVars,
                   engineVars, localVars, histVars>>

\* if DoesTracepointExist(raw) { exit = raw exit } else { enter = syscalls }
InitCheckRaw_MixedExit(s) ==
    /\ ~aborted
    /\ pc[s] = "init2"
    /\ IF rawExists
       THEN /\ syscallExitName' = SysExitName
            /\ pc' = [pc EXCEPT ![s] = "init_ret"]
            /\ UNCHANGED syscallEnterName
       ELSE /\ syscallEnterName' = SysEnterName
            /\ pc' = [pc EXCEPT ![s] = "init3"]
            /\ UNCHANGED syscallExitName
    /\ TeardownFrame /\ DecoderFrame /\ MainFrame
    /\ EnvFrame
    /\ UNCHANGED <<onceState, initRuns, sensorVars, engineVars, localVars,
                   histVars>>
InitCheckRaw(s) ==
    /\ ~aborted
    /\ pc[s] = "init2"
    /\ IF rawExists
       THEN /\ syscallExitName' = RawExitName
            /\ pc' = [pc EXCEPT ![s] = "init_ret"]
            /\ UNCHANGED syscallEnterName
       ELSE /\ syscallEnterName' = SysEnterName
            /\ pc' = [pc EXCEPT ![s] = "init3"]
            /\ UNCHANGED syscallExitName
    /\ TeardownFrame /\ DecoderFrame /\ MainFrame
    /\ EnvFrame
    /\ UNCHANGED <<onceState, initRuns, sensorVars, engineVars, localVars,
                   histVars>>

\* if !DoesTracepointExist(syscalls/sys_enter) { glog.Fatal }; exit = ...
InitCheckSys_LogOnly(s) ==
    /\ ~aborted
    /\ pc[s] = "init3"
    /\ syscallExitName' = SysExitName
    /\ pc' = [pc EXCEPT ![s] = "init_ret"]
    /\ UNCHANGED aborted
    /\ TeardownFrame /\ DecoderFrame /\ MainFrame
    /\ UNCHANGED envVars
    /\ UNCHANGED <<onceState, syscallEnterName, initRuns, sensorVars,
                   engineVars, localVars, histVars>>
InitCheckSys(s) ==
    /\ ~aborted
    /\ pc[s] = "init3"
    /\ IF ~sysExists
       THEN /\ aborted' = TRUE
            /\ UNCHANGED <<syscallExitName, pc>>
       ELSE /\ syscallExitName' = SysExitName
            /\ pc' = [pc EXCEPT ![s] = "init_ret"]
            /\ UNCHANGED aborted
    /\ TeardownFrame /\ DecoderFrame /\ MainFrame
    /\ UNCHANGED envVars
    /\ UNCHANGED <<onceState, syscallEnterName, initRuns, sensorVars,
                   engineVars, localVars, histVars>>

\* f has returned: syscallOnce is done and the caller goes on.
OnceDoReturn(s) ==
    /\ ~aborted
    /\ pc[s] = "init_ret"
    /\ onceState' = "done"
    /\ pc' = [pc EXCEPT ![s] = AfterOnce(op[s])]
    /\ op' = [op EXCEPT ![s] = "none"]
    /\ namesRead' = namesRead \cup {NamePair}
    /\ TeardownFrame /\ DecoderFrame /\ MainFrame
    /\ EnvFrame
    /\ UNCHANGED <<syscallEnterName, syscallExitName, initRuns, sensorVars,
                   engineVars, result, acqID, relID, retpc, calls,
                   eventGroupID, sinks, regCalls, unregCalls, requested,
                   relStarted, overlapped, rejected, acquired, over>>

\* --------------------------------------- registerGlobalDummySyscallEvent
\* atomic.AddInt64(&s.sensor.dummySyscallEventCount, 1) == 1 ?
GlobalDummyAdd(s) ==
    /\ ~aborted
    /\ pc[s] = "dummy"
    /\ UsesGlobalDummy(major)
    /\ LET n == dummySyscallEventCount + 1 IN
       /\ dummySyscallEventCount' = n
       /\ IF IsFirstAcquire(n)
          THEN /\ pc' = [pc EXCEPT ![s] = "g_reg"]
               /\ UNCHANGED <<result, acquired>>
          ELSE /\ result' = [result EXCEPT ![s] = TRUE]
               /\ acquired' = acquired + 1
               /\ pc' = [pc EXCEPT ![s] = AfterAcquire(TRUE)]
    /\ overlapped' = (overlapped \/ relStarted)
    /\ TeardownFrame /\ DecoderFrame /\ MainFrame
    /\ EnvFrame /\ NamesFrame
    /\ UNCHANGED <<dummySyscallEventID, engineVars, op, acqID, relID, retpc,
                   calls, eventGroupID, sinks, regCalls, unregCalls, requested,
                   namesRead, relStarted, rejected, over>>

\* eventID, err := Monitor().RegisterTracepoint(syscallEnterName, ...)
GlobalDummyRegister(s) ==
    /\ ~aborted
    /\ pc[s] = "g_reg"
    /\ regCalls' = regCalls + 1
    /\ namesRead' = namesRead \cup {NamePair}
    /\ \E ok \in BOOLEAN :
         IF ok
         THEN /\ events' = EngineRegister(Tracepoint("gdummy",
                               syscallEnterName, DummyHandler,
                               ContainerCacheEventGroupID, DummyFilter, 0))
              /\ nextID' = nextID + 1
              /\ acqID' = [acqID EXCEPT ![s] = nextID]
              /\ pc' = [pc EXCEPT ![s] = "g_store"]
              /\ UNCHANGED rejected
         ELSE /\ pc' = [pc EXCEPT ![s] = "g_rollback"]
              /\ rejected' = TRUE
              /\ UNCHANGED <<events, nextID, acqID>>
    /\ TeardownFrame /\ DecoderFrame /\ MainFrame
    /\ EnvFrame /\ NamesFrame
    /\ UNCHANGED <<sensorVars, op, result, relID, retpc, calls, eventGroupID,
                   sinks, unregCalls, requested, relStarted, overlapped,
                   acquired, over>>

\* err != nil: atomic.AddInt64(&count, -1); return false
GlobalDummyRollback(s) ==
    /\ ~aborted
    /\ pc[s] = "g_rollback"
    /\ dummySyscallEventCount' = RolledBack(dummySyscallEventCount)
    /\ result' = [result EXCEPT ![s] = FALSE]
    /\ pc' = [pc EXCEPT ![s] = AfterAcquire(FALSE)]
    /\ TeardownFrame /\ DecoderFrame /\ MainFrame
    /\ EnvFrame /\ NamesFrame
    /\ UNCHANGED <<dummySyscallEventID, engineVars, op, acqID, relID, retpc,
                   calls, eventGroupID, sinks, histVars>>

\* s.sensor.dummySyscallEventID = eventID; return true
GlobalDummyStore(s) ==
    /\ ~aborted
    /\ pc[s] = "g_store"
    /\ dummySyscallEventID' = acqID[s]
    /\ acqID' = [acqID EXCEPT ![s] = 0]
    /\ result' = [result EXCEPT ![s] = TRUE]
    /\ acquired' = acquired + 1
    /\ pc' = [pc EXCEPT ![s] = AfterAcquire(TRUE)]
    /\ TeardownFrame /\ DecoderFrame /\ MainFrame
    /\ EnvFrame /\ NamesFrame
    /\ UNCHANGED <<dummySyscallEventCount, engineVars, op, relID, retpc,
                   calls, eventGroupID, sinks, regCalls, unregCalls, requested,
                   namesRead, relStarted, overlapped, rejected, over>>

\* ---------------------------------------- registerLocalDummySyscallEvent
\* Subscription.createEventGroup: the subscription gets its own group.
createEventGroup(s) == IF eventGroupID[s] = NoEventGroup THEN s ELSE eventGroupID[s]

\* if err = s.createEventGroup(); err != nil { return false }
LocalDummyCreateGroup(s) ==
    /\ ~aborted
    /\ pc[s] = "dummy"
    /\ ~UsesGlobalDummy(major)
    /\ \E ok \in BOOLEAN :
         IF ok
         THEN /\ eventGroupID' = [eventGroupID EXCEPT ![s] = createEventGroup(s)]
              /\ pc' = [pc EXCEPT ![s] = "l_reg"]
              /\ UNCHANGED result
         ELSE /\ result' = [result EXCEPT ![s] = FALSE]
              /\ pc' = [pc EXCEPT ![s] = AfterAcquire(FALSE)]
              /\ UNCHANGED eventGroupID
    /\ TeardownFrame /\ DecoderFrame /\ MainFrame
    /\ EnvFrame /\ NamesFrame
    /\ UNCHANGED <<sensorVars, engineVars, op, acqID, relID, retpc, calls,
                   sinks, histVars>>

\* _, err = Monitor().RegisterTracepoint(syscallEnterName, ..., s.eventGroupID)
LocalDummyRegister(s) ==
    /\ ~aborted
    /\ pc[s] = "l_reg"
    /\ requested' = TRUE
    /\ namesRead' = namesRead \cup {NamePair}
    /\ \E ok \in BOOLEAN :
         IF ok
         THEN /\ events' = EngineRegister(Tracepoint("ldummy",
                               syscallEnterName, DummyHandler,
                               eventGroupID[s], DummyFilter, s))
              /\ nextID' = nextID + 1
              /\ result' = [result EXCEPT ![s] = TRUE]
              /\ pc' = [pc EXCEPT ![s] = AfterAcquire(TRUE)]
         ELSE /\ result' = [result EXCEPT ![s] = FALSE]
              /\ pc' = [pc EXCEPT ![s] = AfterAcquire(FALSE)]
              /\ UNCHANGED <<events, nextID>>
    /\ TeardownFrame /\ DecoderFrame /\ MainFrame
    /\ EnvFrame /\ NamesFrame
    /\ UNCHANGED <<sensorVars, op, acqID, relID, retpc, calls, eventGroupID,
                   sinks, regCalls, unregCalls, relStarted,
                   overlapped, rejected, acquired, over>>

\* ------------------------------------------------- the unregister closure
\* Successful acquires of s whose release closure has not been invoked yet:
\* one per event sink carrying the hook, plus the one of a call that is
\* between its acquire and registerKprobe.
Holders(s) ==
    Cardinality({es \in sinks[s] : es.hook})
      + (IF pc[s] = "kprobe" /\ UsesGlobalDummy(major) THEN 1 ELSE 0)

\* What invoking the closure does to the observation variables.
ReleaseStarts(s) ==
    /\ relStarted' = TRUE
    /\ overlapped' = (overlapped \/ \E t \in Subs : pc[t] \in AcquirePCs)

\* eventID := s.sensor.dummySyscallEventID
ReleaseRead(s) ==
    /\ ~aborted
    /\ pc[s] = "r_read"
    /\ relID' = [relID EXCEPT ![s] = dummySyscallEventID]
    /\ pc' = [pc EXCEPT ![s] = "r_add"]
    /\ TeardownFrame /\ DecoderFrame /\ MainFrame
    /\ EnvFrame /\ NamesFrame
    /\ UNCHANGED <<sensorVars, engineVars, op, result, acqID, retpc, calls,
                   eventGroupID, sinks, histVars>>

\* if atomic.AddInt64(&s.sensor.dummySyscallEventCount, -1) == 0
ReleaseAdd(s) ==
    /\ ~aborted
    /\ pc[s] = "r_add"
    /\ LET n == Released(dummySyscallEventCount) IN
       /\ dummySyscallEventCount' = n
       /\ IF IsLastRelease(n)
          THEN /\ pc' = [pc EXCEPT ![s] = "r_unreg"]
               /\ UNCHANGED <<relID, retpc>>
          ELSE /\ pc' = [pc EXCEPT ![s] = retpc[s]]
               /\ relID' = [relID EXCEPT ![s] = 0]
               /\ retpc' = [retpc EXCEPT ![s] = "idle"]
    /\ TeardownFrame /\ DecoderFrame /\ MainFrame
    /\ EnvFrame /\ NamesFrame
    /\ UNCHANGED <<dummySyscallEventID, engineVars, op, result, acqID, calls,
                   eventGroupID, sinks, histVars>>

\* s.sensor.Monitor().UnregisterEvent(eventID)
ReleaseUnregister(s) ==
    /\ ~aborted
    /\ pc[s] = "r_unreg"
    /\ events' = EngineUnregister(relID[s])
    /\ unregCalls' = unregCalls + 1
    /\ pc' = [pc EXCEPT ![s] = retpc[s]]
    /\ relID' = [relID EXCEPT ![s] = 0]
    /\ retpc' = [retpc EXCEPT ![s] = "idle"]
    /\ TeardownFrame /\ DecoderFrame /\ MainFrame
    /\ EnvFrame /\ NamesFrame
    /\ UNCHANGED <<sensorVars, nextID, op, result, acqID, calls, eventGroupID,
                   sinks, regCalls, requested, namesRead, relStarted,
                   overlapped, rejected, acquired, over>>

\* -------------------- RegisterSyscallEnterEventFilter: the kprobe request
\* es, err := s.registerKprobe(kprobeSymbol, false, fetchargs, handler, ...)
\* err != nil: unregister(nil) when the closure exists;
\* otherwise es.unregister = unregister.
EnterKprobe(s) ==
    /\ ~aborted
    /\ pc[s] = "kprobe"
    /\ requested' = TRUE
    /\ result' = [result EXCEPT ![s] = FALSE]
    /\ \E ok \in BOOLEAN :
         IF ok
         THEN /\ eventGroupID' = [eventGroupID EXCEPT ![s] = createEventGroup(s)]
              /\ events' = EngineRegister(Kprobe(KprobeSymbol(symAvail),
                               FALSE, syscallEnterKprobeFetchargs,
                               "handleSyscallTraceEnter",
                               createEventGroup(s), s))
              /\ nextID' = nextID + 1
              /\ sinks' = [sinks EXCEPT ![s] = @ \cup
                             {[id |-> nextID, hook |-> UsesGlobalDummy(major)]}]
              /\ pc' = [pc EXCEPT ![s] = "idle"]
              /\ UNCHANGED <<retpc, relStarted, overlapped>>
         ELSE /\ IF UsesGlobalDummy(major)
                 THEN /\ pc' = [pc EXCEPT ![s] = "r_read"]
                      /\ retpc' = [retpc EXCEPT ![s] = "idle"]
                      /\ ReleaseStarts(s)
                 ELSE /\ pc' = [pc EXCEPT ![s] = "idle"]
                      /\ UNCHANGED <<retpc, relStarted, overlapped>>
              /\ UNCHANGED <<events, nextID, sinks, eventGroupID>>
    /\ TeardownFrame /\ DecoderFrame /\ MainFrame
    /\ EnvFrame /\ NamesFrame
    /\ UNCHANGED <<sensorVars, op, acqID, relID, calls, regCalls,
                   unregCalls, namesRead, rejected, acquired, over>>

\* --------------------------------------- RegisterSyscallExitEventFilter
\* s.registerTracepoint(syscallExitName, s.handleSysExit, filter)
ExitTracepoint(s) ==
    /\ ~aborted
    /\ pc[s] = "exit_tp"
    /\ requested' = TRUE
    /\ namesRead' = namesRead \cup {NamePair}
    /\ \E ok \in BOOLEAN :
         IF ok
         THEN /\ eventGroupID' = [eventGroupID EXCEPT ![s] = createEventGroup(s)]
              /\ events' = EngineRegister(Tracepoint("exit",
                               syscallExitName, "handleSysExit",
                               createEventGroup(s), "", s))
              /\ nextID' = nextID + 1
              /\ sinks' = [sinks EXCEPT ![s] = @ \cup
                             {[id |-> nextID, hook |-> FALSE]}]
         ELSE UNCHANGED <<events, nextID, sinks, eventGroupID>>
    /\ pc' = [pc EXCEPT ![s] = "idle"]
    /\ TeardownFrame /\ DecoderFrame /\ MainFrame
    /\ EnvFrame /\ NamesFrame
    /\ UNCHANGED <<sensorVars, op, result, acqID, relID, retpc, calls,
                   regCalls, unregCalls, relStarted, overlapped, rejected, acquired, over>>

\* ------------------------------------------------ subscription teardown
\* The subscription is closed: each event sink it owns is unregistered and
\* the sink's unregister hook, when set, is run.
Close(s) ==
    /\ ~aborted
    /\ pc[s] = "idle"
    /\ pc' = [pc EXCEPT ![s] = "td"]
    /\ hooksAtClose' = [hooksAtClose EXCEPT
                          ![s] = Cardinality({es \in sinks[s] : es.hook})]
    /\ UNCHANGED tdReleases
    /\ DecoderFrame /\ MainFrame
    /\ EnvFrame /\ NamesFrame
    /\ UNCHANGED <<sensorVars, engineVars, localVars, histVars>>

TeardownSink(s) ==
    /\ ~aborted
    /\ pc[s] = "td"
    /\ IF sinks[s] = {}
       THEN /\ pc' = [pc EXCEPT ![s] = "closed"]
            /\ UNCHANGED <<events, sinks, retpc, relStarted, overlapped,
                           tdReleases>>
       ELSE \E es \in sinks[s] :
            /\ sinks' = [sinks EXCEPT ![s] = @ \ {es}]
            /\ events' = EngineUnregister(es.id)
            /\ IF es.hook
               THEN /\ pc' = [pc EXCEPT ![s] = "r_read"]
                    /\ retpc' = [retpc EXCEPT ![s] = "td"]
                    /\ tdReleases' = [tdReleases EXCEPT ![s] = @ + 1]
                    /\ ReleaseStarts(s)
               ELSE UNCHANGED <<pc, retpc, relStarted, overlapped,
                                tdReleases>>
    /\ UNCHANGED hooksAtClose
    /\ DecoderFrame /\ MainFrame
    /\ EnvFrame /\ NamesFrame
    /\ UNCHANGED <<sensorVars, nextID, op, result, acqID, relID, calls,
                   eventGroupID, regCalls, unregCalls, requested, namesRead,
                   rejected, acquired, over>>

\* A release beyond the acquired ones: after the count has come back to 0
\* and the dummy has been unregistered, the closure is invoked once more.
OverRelease(s) ==
    /\ ~aborted
    /\ pc[s] \in {"idle", "closed"}
    /\ UsesGlobalDummy(major)
    /\ unregCalls > 0
    /\ dummySyscallEventCount <= 0
    /\ over < MaxOver
    /\ over' = over + 1
    /\ pc' = [pc EXCEPT ![s] = "r_read"]
    /\ retpc' = [retpc EXCEPT ![s] = pc[s]]
    /\ relStarted' = TRUE
    /\ TeardownFrame /\ DecoderFrame /\ MainFrame
    /\ EnvFrame /\ NamesFrame
    /\ UNCHANGED <<sensorVars, engineVars, op, result, acqID, relID, calls,
                   eventGroupID, sinks, regCalls, unregCalls, requested,
                   namesRead, overlapped, rejected, acquired>>

\* ----------------------------------------------------------------- specs
Next ==
    \E s \in Subs :
        \/ RegisterSyscallEnterEventFilter(s)
        \/ RegisterSyscallExitEventFilter(s)
        \/ OnceDoFirst(s)
        \/ OnceDoPass(s)
        \/ InitSetRaw(s)
        \/ InitCheckRaw(s)
        \/ InitCheckSys(s)
        \/ OnceDoReturn(s)
        \/ GlobalDummyAdd(s)
        \/ GlobalDummyRegister(s)
        \/ GlobalDummyRollback(s)
        \/ GlobalDummyStore(s)
        \/ LocalDummyCreateGroup(s)
        \/ LocalDummyRegister(s)
        \/ ReleaseRead(s)
        \/ ReleaseAdd(s)
        \/ ReleaseUnregister(s)
        \/ EnterKprobe(s)
        \/ ExitTracepoint(s)
        \/ Close(s)
        \/ TeardownSink(s)

Spec == Init /\ [][Next]_vars

NextOver ==
    \/ Next
    \/ \E s \in Subs : OverRelease(s)

\* The tracepoint namespace and the kprobe symbol play no part in the
\* reference count: one kernel configuration (the fallback namespace, so
\* that all of initSyscallNames runs) stands for all of them here.
InitOver == Init /\ ~rawExists /\ sysExists /\ symAvail

SpecOver == InitOver /\ [][NextOver]_vars

\* ============================================================ the decoder
\* Everything of the registrar, which no sample handler touches.
registrarVars == <<envVars, nameVars, aborted, sensorVars, engineVars, pc,
                   localVars, histVars, tdVars>>

AF_LOCAL == 1
AF_INET == 2
AF_INET6 == 10

argKeys_Swapped == <<"arg1", "arg0", "arg2", "arg3", "arg4", "arg5">>
argKeys == <<"arg0", "arg1", "arg2", "arg3", "arg4", "arg5">>

\* The fields declared for each event kind (expression.FieldTypeMap).
SyscallEnterEventTypes == {"id", "arg0", "arg1", "arg2", "arg3", "arg4", "arg5"}
SyscallExitEventTypes == {"id", "ret"}
NetworkAttemptEventTypes == {"fd"}
NetworkAttemptWithAddressEventTypes ==
    {"fd", "sa_family", "sin_port", "sin_addr", "sun_path", "sin6_port",
     "sin6_addr_high", "sin6_addr_low"}
NetworkListenAttemptEventTypes == {"fd", "backlog"}
NetworkResultEventTypes == {"ret"}

\* ---------------------------------------------------- perf.Sample getters
\* A getter returns the field's value, or the zero value of its type and an
\* error (which every handler discards) when the sample has no such field.
GetSignedInt64(smp, f) == IF f \in DOMAIN smp.fields THEN smp.fields[f] ELSE 0
GetUnsignedInt64(smp, f) == IF f \in DOMAIN smp.fields THEN smp.fields[f] ELSE 0
GetUnsignedInt32(smp, f) == IF f \in DOMAIN smp.fields THEN smp.fields[f] ELSE 0
GetUnsignedInt16(smp, f) == IF f \in DOMAIN smp.fields THEN smp.fields[f] ELSE 0
GetString(smp, f) == IF f \in DOMAIN smp.fields THEN smp.fields[f] ELSE ""

\* TelemetryEventData.InitWithSample: the common envelope is initialised
\* or the call reports failure.
InitWithSample(smp) == smp.initOK

\* "if e.InitWithSample(s.sensor, sample) { ...; s.DispatchEvent(eventid, e, nil) }"
DispatchWhenInitialized_Always(ok, e) == <<e>>
DispatchWhenInitialized(ok, e) == IF ok THEN <<e>> ELSE <<>>

\* ------------------------------------------------ kind-specific decoding
\* NetworkAttemptTelemetryEventData.initWithSample
NetworkAttemptTelemetryEventData(smp) ==
    [FD |-> GetUnsignedInt64(smp, "fd")]

\* NetworkAddressTelemetryEventData.initWithSample
NetworkAddressTelemetryEventData_CopyAll(smp) ==
    [Family |-> GetUnsignedInt16(smp, "sa_family"),
     UnixPath |-> GetString(smp, "sun_path"),
     IPv4Address |-> GetUnsignedInt32(smp, "sin_addr"),
     IPv4Port |-> GetUnsignedInt16(smp, "sin_port"),
     IPv6AddressHigh |-> GetUnsignedInt64(smp, "sin6_addr_high"),
     IPv6AddressLow |-> GetUnsignedInt64(smp, "sin6_addr_low"),
     IPv6Port |-> GetUnsignedInt16(smp, "sin6_port")]
NetworkAddressTelemetryEventData(smp) ==
    LET Family == GetUnsignedInt16(smp, "sa_family") IN
    [Family |-> Family,
     UnixPath |-> IF Family = AF_LOCAL THEN GetString(smp, "sun_path") ELSE "",
     IPv4Address |->
        IF Family = AF_INET THEN GetUnsignedInt32(smp, "sin_addr") ELSE 0,
     IPv4Port |->
        IF Family = AF_INET THEN GetUnsignedInt16(smp, "sin_port") ELSE 0,
     IPv6AddressHigh |->
        IF Family = AF_INET6 THEN GetUnsignedInt64(smp, "sin6_addr_high") ELSE 0,
     IPv6AddressLow |->
        IF Family = AF_INET6 THEN GetUnsignedInt64(smp, "sin6_addr_low") ELSE 0,
     IPv6Port |->
        IF Family = AF_INET6 THEN GetUnsignedInt16(smp, "sin6_port") ELSE 0]

\* NetworkResultTelemetryEventData.initWithSample
NetworkResultTelemetryEventData(smp) ==
    [Return |-> GetSignedInt64(smp, "ret")]

\* --------------------------------------------------- the sample handlers
\* Each handler is the sequence of DispatchEvent calls it makes for a sample.
handleDummySysEnter(smp) == <<>>

handleSyscallTraceEnter(smp) ==
    DispatchWhenInitialized(InitWithSample(smp),
        [kind |-> "SyscallEnter",
         ID |-> GetSignedInt64(smp, "id"),
         Arguments |-> [i \in 1..6 |-> GetUnsignedInt64(smp, argKeys[i])]])

handleSysExit(smp) ==
    DispatchWhenInitialized(InitWithSample(smp),
        [kind |-> "SyscallExit",
         ID |-> GetSignedInt64(smp, "id"),
         Return |-> GetSignedInt64(smp, "ret")])

handleSysEnterAccept(smp) ==
    DispatchWhenInitialized(InitWithSample(smp),
        [kind |-> "NetworkAcceptAttempt",
         attempt |-> NetworkAttemptTelemetryEventData(smp)])

handleSysExitAccept(smp) ==
    DispatchWhenInitialized(InitWithSample(smp),
        [kind |-> "NetworkAcceptResult",
         result |-> NetworkResultTelemetryEventData(smp)])

handleSysBind(smp) ==
    DispatchWhenInitialized(InitWithSample(smp),
        [kind |-> "NetworkBindAttempt",
         attempt |-> NetworkAttemptTelemetryEventData(smp),
         address |-> NetworkAddressTelemetryEventData(smp)])

handleSysExitBind(smp) ==
    DispatchWhenInitialized(InitWithSample(smp),
        [kind |-> "NetworkBindResult",
         result |-> NetworkResultTelemetryEventData(smp)])

handleSysConnect(smp) ==
    DispatchWhenInitialized(InitWithSample(smp),
        [kind |-> "NetworkConnectAttempt",
         attempt |-> NetworkAttemptTelemetryEventData(smp),
         address |-> NetworkAddressTelemetryEventData(smp)])

handleSysExitConnect(smp) ==
    DispatchWhenInitialized(InitWithSample(smp),
        [kind |-> "NetworkConnectResult",
         result |-> NetworkResultTelemetryEventData(smp)])

handleSysEnterListen_NoBacklog(smp) ==
    DispatchWhenInitialized(InitWithSample(smp),
        [kind |-> "NetworkListenAttempt",
         attempt |-> NetworkAttemptTelemetryEventData(smp),
         Backlog |-> 0])
handleSysEnterListen(smp) ==
    DispatchWhenInitialized(InitWithSample(smp),
        [kind |-> "NetworkListenAttempt",
         attempt |-> NetworkAttemptTelemetryEventData(smp),
         Backlog |-> GetUnsignedInt64(smp, "backlog")])

handleSysExitListen(smp) ==
    DispatchWhenInitialized(InitWithSample(smp),
        [kind |-> "NetworkListenResult",
         result |-> NetworkResultTelemetryEventData(smp)])

handleSysEnterRecvfrom(smp) ==
    DispatchWhenInitialized(InitWithSample(smp),
        [kind |-> "NetworkRecvfromAttempt",
         attempt |-> NetworkAttemptTelemetryEventData(smp)])

handleSysExitRecvfrom(smp) ==
    DispatchWhenInitialized(InitWithSample(smp),
        [kind |-> "NetworkRecvfromResult",
         result |-> NetworkResultTelemetryEventData(smp)])

handleSysSendto(smp) ==
    DispatchWhenInitialized(InitWithSample(smp),
        [kind |-> "NetworkSendtoAttempt",
         attempt |-> NetworkAttemptTelemetryEventData(smp),
         address |-> NetworkAddressTelemetryEventData(smp)])

handleSysExitSendto(smp) ==
    DispatchWhenInitialized(InitWithSample(smp),
        [kind |-> "NetworkSendtoResult",
         result |-> NetworkResultTelemetryEventData(smp)])

\* The handlers that materialise an event, and all handlers.
EventHandlers ==
    {"handleSyscallTraceEnter", "handleSysExit", "handleSysEnterAccept",
     "handleSysExitAccept", "handleSysBind", "handleSysExitBind",
     "handleSysConnect", "handleSysExitConnect", "handleSysEnterListen",
     "handleSysExitListen", "handleSysEnterRecvfrom", "handleSysExitRecvfrom",
     "handleSysSendto", "handleSysExitSendto"}
AddressHandlers == {"handleSysBind", "handleSysConnect", "handleSysSendto"}
Handlers == EventHandlers \cup {"handleDummySysEnter"}

\* The engine calls the handler an event was registered with.
RunHandler(h, smp) ==
    CASE h = "handleDummySysEnter" -> handleDummySysEnter(smp)
      [] h = "handleSyscallTraceEnter" -> handleSyscallTraceEnter(smp)
      [] h = "handleSysExit" -> handleSysExit(smp)
      [] h = "handleSysEnterAccept" -> handleSysEnterAccept(smp)
      [] h = "handleSysExitAccept" -> handleSysExitAccept(smp)
      [] h = "handleSysBind" -> handleSysBind(smp)
      [] h = "handleSysExitBind" -> handleSysExitBind(smp)
      [] h = "handleSysConnect" -> handleSysConnect(smp)
      [] h = "handleSysExitConnect" -> handleSysExitConnect(smp)
      [] h = "handleSysEnterListen" -> handleSysEnterListen(smp)
      [] h = "handleSysExitListen" -> handleSysExitListen(smp)
      [] h = "handleSysEnterRecvfrom" -> handleSysEnterRecvfrom(smp)
      [] h = "handleSysExitRecvfrom" -> handleSysExitRecvfrom(smp)
      [] h = "handleSysSendto" -> handleSysSendto(smp)
      [] h = "handleSysExitSendto" -> handleSysExitSendto(smp)

\* The fields the event a handler is registered for declares.
DeclaredFields(h) ==
    CASE h = "handleDummySysEnter" -> SyscallEnterEventTypes
      [] h = "handleSyscallTraceEnter" -> SyscallEnterEventTypes
      [] h = "handleSysExit" -> SyscallExitEventTypes
      [] h \in AddressHandlers -> NetworkAttemptWithAddressEventTypes
      [] h = "handleSysEnterListen" -> NetworkListenAttemptEventTypes
      [] h \in {"handleSysEnterAccept", "handleSysEnterRecvfrom"}
           -> NetworkAttemptEventTypes
      [] OTHER -> NetworkResultEventTypes

\* ------------------------------------------------------------ the samples
\* Address families a sample may carry: the three the decoder knows, one it
\* does not (AF_PACKET) and AF_UNSPEC.
SampleFamilies == {AF_LOCAL, AF_INET, AF_INET6, 17, 0}

\* Two values for every field, within the field's declared type.
SampleValue(f, fam, alt) ==
    CASE f = "id" -> IF alt THEN 2147483647 ELSE 59
      [] f = "arg0" -> IF alt THEN 0 ELSE 101
      [] f = "arg1" -> IF alt THEN 1 ELSE 102
      [] f = "arg2" -> IF alt THEN 2 ELSE 103
      [] f = "arg3" -> IF alt THEN 3 ELSE 104
      [] f = "arg4" -> IF alt THEN 4 ELSE 105
      [] f = "arg5" -> IF alt THEN 5 ELSE 106
      [] f = "ret" -> IF alt THEN -1 ELSE 7
      [] f = "fd" -> IF alt THEN 0 ELSE 3
      [] f = "backlog" -> IF alt THEN 4096 ELSE 128
      [] f = "sa_family" -> fam
      [] f = "sin_port" -> IF alt THEN 8080 ELSE 80
      [] f = "sin_addr" -> IF alt THEN 167772161 ELSE 2130706433
      [] f = "sun_path" -> IF alt THEN "/run/b.sock" ELSE "/run/a.sock"
      [] f = "sin6_port" -> IF alt THEN 8443 ELSE 443
      [] f = "sin6_addr_high" -> IF alt THEN 536936448 ELSE 536939960
      [] f = "sin6_addr_low" -> IF alt THEN 2 ELSE 1

\* The sample of handler h that carries the fields in present.
Sample(h, present, fam, alt, ok) ==
    [handler |-> h, initOK |-> ok,
     fields |-> [f \in present |-> SampleValue(f, fam, alt)]]

\* ------------------------------------------------- a collection thread
\* The engine has a sample for an event registered with handler h.
SampleArrives(h) ==
    /\ sample.handler = "none"
    /\ \E present \in SUBSET DeclaredFields(h), fam \in SampleFamilies,
          alt \in BOOLEAN, ok \in BOOLEAN :
         sample' = Sample(h, present, fam, alt, ok)
    /\ handled' = FALSE
    /\ dispatched' = <<>>
    /\ UNCHANGED registrarVars
    /\ MainFrame

\* The engine calls handler h with the sample; the handler runs to its end.
CallHandler(h) ==
    /\ sample.handler = h
    /\ ~handled
    /\ dispatched' = dispatched \o RunHandler(h, sample)
    /\ handled' = TRUE
    /\ UNCHANGED sample
    /\ UNCHANGED registrarVars
    /\ MainFrame

\* The handler has returned and the thread takes the next sample.
HandlerReturns ==
    /\ sample.handler # "none"
    /\ handled
    /\ sample' = NoSample
    /\ handled' = FALSE
    /\ dispatched' = <<>>
    /\ UNCHANGED registrarVars
    /\ MainFrame

NextDecode ==
    \/ \E h \in Handlers : SampleArrives(h)
    \/ \E h \in Handlers : CallHandler(h)
    \/ HandlerReturns

\* The handlers read nothing of the registrar: one kernel configuration
\* stands for all of them.
InitDecode == Init /\ major = 3 /\ rawExists /\ sysExists /\ symAvail

SpecDecode == InitDecode /\ [][NextDecode]_vars

\* ============================================================ telemetryd
\* A -pubsub path is a string; it is modelled as a sequence of tokens, "/"
\* being the separator and every other token a piece of text without "/".
PathTokens == {"/", "projects", "topics", "id"}
Paths == UNION {[1..n -> PathTokens] : n \in 0..MaxPathLen}

\* strings.Split(path, "/"): the pieces between the separators, in order;
\* a path without separator, the empty one included, is one piece.
RECURSIVE Split(_)
Split(path) ==
    IF path = <<>> THEN << <<>> >>
    ELSE LET rest == Split(Tail(path))
         IN  IF Head(path) = "/"
             THEN << <<>> >> \o rest
             ELSE << <<Head(path)>> \o rest[1] >> \o Tail(rest)

\* parts[i] of the Go code (0-based): a panic when i is out of range.
InRange(parts, i) == i + 1 <= Len(parts)

\* connectToPubsubTopic(ctx, path).  clientOK is the outcome of
\* pubsub.NewClient, exists the one of t.Exists: "yes", "no" or "error".
\* The result is a runtime panic or the returned pair (topic, err).
Returned(t, e) == [panic |-> FALSE, topic |-> t, err |-> e]
Panicked == [panic |-> TRUE, topic |-> NilTopic, err |-> NilError]

connectToPubsubTopic(path, clientOK, exists) ==
    LET parts == Split(path)
    IN  IF parts[1] # <<"projects">> THEN Returned(NilTopic, "parse")
        ELSE IF ~InRange(parts, 2) THEN Panicked
        ELSE IF parts[3] # <<"topics">> THEN Returned(NilTopic, "parse")
        ELSE IF ~InRange(parts, 3) THEN Panicked
        ELSE IF ~clientOK THEN Returned(NilTopic, "client")
        ELSE IF exists = "error" THEN Returned(NilTopic, "exists")
        ELSE IF exists = "no" THEN Returned(NilTopic, NilError)
        ELSE Returned(Topic(parts[2], parts[4]), NilError)

\* main, from flag.Parse to the -pubsub check: the subscription is read from
\* a file or built in, printed on -p, and an empty -pubsub prints the usage.
MainConfigure ==
    /\ mpc = "start"
    /\ \E config \in {"builtin", "file", "open_failed", "parse_failed"},
          dumpConfig \in BOOLEAN, marshalOK \in BOOLEAN :
         mpc' = IF config \in {"open_failed", "parse_failed"} THEN "fatal"
                ELSE IF dumpConfig
                     THEN (IF marshalOK THEN "exit" ELSE "fatal")
                ELSE IF Len(pubsubPath) = 0 THEN "exit"
                ELSE "connect"
    /\ UNCHANGED <<pubsubPath, topic, err, nEvents, connectReturned,
                   nilPublish>>
    /\ UNCHANGED <<registrarVars, decodeVars>>

\* topic, err := connectToPubsubTopic(...); if err != nil { glog.Fatal(err) }
MainConnect ==
    /\ mpc = "connect"
    /\ \E clientOK \in BOOLEAN, exists \in {"yes", "no", "error"} :
         LET r == connectToPubsubTopic(pubsubPath, clientOK, exists)
         IN  IF r.panic
             THEN /\ mpc' = "panic"
                  /\ UNCHANGED <<topic, err, connectReturned>>
             ELSE /\ topic' = r.topic
                  /\ err' = r.err
                  /\ connectReturned' = TRUE
                  /\ mpc' = IF r.err # NilError THEN "fatal" ELSE "sensor"
    /\ UNCHANGED <<pubsubPath, nEvents, nilPublish>>
    /\ UNCHANGED <<registrarVars, decodeVars>>

\* sensor.NewSensor, s.Start and sub.Run: any of them failing is fatal.
MainStartSensor ==
    /\ mpc = "sensor"
    /\ \E newOK \in BOOLEAN, startOK \in BOOLEAN, runOK \in BOOLEAN :
         mpc' = IF newOK /\ startOK /\ runOK THEN "running" ELSE "fatal"
    /\ UNCHANGED <<pubsubPath, topic, err, nEvents, connectReturned,
                   nilPublish>>
    /\ UNCHANGED <<registrarVars, decodeVars>>

\* The callback given to sub.Run, for one event.  Publish on a nil topic
\* dereferences a nil pointer inside the Pub/Sub client library.
MainCallback ==
    /\ mpc = "running"
    /\ nEvents < MaxEvents
    /\ nEvents' = nEvents + 1
    /\ \E marshalOK \in BOOLEAN, survives \in BOOLEAN :
         IF ~marshalOK
         THEN UNCHANGED <<mpc, nilPublish>>
         ELSE IF topic.nil
              THEN /\ nilPublish' = TRUE
                   /\ mpc' = IF survives THEN "running" ELSE "panic"
              ELSE UNCHANGED <<mpc, nilPublish>>
    /\ UNCHANGED <<pubsubPath, topic, err, connectReturned>>
    /\ UNCHANGED <<registrarVars, decodeVars>>

\* An interrupt or SIGTERM arrives: cancel, s.Stop, os.Exit.
MainInterrupt ==
    /\ mpc = "running"
    /\ mpc' = "exit"
    /\ UNCHANGED <<pubsubPath, topic, err, nEvents, connectReturned,
                   nilPublish>>
    /\ UNCHANGED <<registrarVars, decodeVars>>

NextMain ==
    \/ MainConfigure
    \/ MainConnect
    \/ MainStartSensor
    \/ MainCallback
    \/ MainInterrupt

\* telemetryd is started with any -pubsub path; the sensor library is
\* behind NewSensor, Start and Run, so one kernel stands for all.
InitMain ==
    /\ SensorInit /\ major = 3 /\ rawExists /\ sysExists /\ symAvail
    /\ pubsubPath \in Paths
    /\ MainStart

SpecMain == InitMain /\ [][NextMain]_vars

\* ================================================================ claims
Global == UsesGlobalDummy(major)

\* No subscription thread is inside a call, and nothing acquired is held.
Quiescent ==
    /\ \A s \in Subs : pc[s] \in {"idle", "closed"}
    /\ \A s \in Subs : Holders(s) = 0

\* A thread that has come out of syscallOnce.Do in the call it is running.
PastOnce(s) ==
    pc[s] \in {"dummy", "g_reg", "g_store", "g_rollback", "l_reg", "kprobe",
               "exit_tp", "r_read", "r_add", "r_unreg"}

\* The pair initSyscallNames has to resolve for the running kernel.
ExpectedNames ==
    IF rawExists THEN <<RawEnterName, RawExitName>>
                 ELSE <<SysEnterName, SysExitName>>

C2_HeldImpliesRegistered ==
    Global => \A s \in Subs : Holders(s) > 0 => LiveGlobalDummies # {}

\* ---- C3 ----------------------------------------------------------------
\* C3: on kernel major >= 3, at most one global dummy tracepoint
\* registration is live in the engine at any time.
C3_AtMostOneLiveDummy ==
    Global => Cardinality(LiveGlobalDummies) <= 1

\* ---- C4 ----------------------------------------------------------------
\* C4: on kernel major >= 3, when the engine rejects the dummy registration
\* of the 0->1 acquire, the rejection leaves the count and
\* dummySyscallEventID as they are, the acquire then takes its increment
\* back, returns false without touching dummySyscallEventID, the call
\* returns at once, and no release hook is run or installed for it.
C4_RejectedAcquireRollsBack ==
    [][\A s \in Subs :
         /\ (pc[s] = "g_reg" /\ pc'[s] = "g_rollback")
              => /\ dummySyscallEventCount' = dummySyscallEventCount
                 /\ dummySyscallEventID' = dummySyscallEventID
                 /\ events' = events
         /\ (pc[s] = "g_rollback" /\ pc'[s] # "g_rollback")
              => /\ dummySyscallEventCount' = dummySyscallEventCount - 1
                 /\ dummySyscallEventID' = dummySyscallEventID
                 /\ result'[s] = FALSE
                 /\ pc'[s] = "idle"
                 /\ sinks' = sinks
                 /\ Holders(s)' = Holders(s)
                 /\ unregCalls' = unregCalls
                 /\ events' = events
    ]_vars

C4_Witness ==
    /\ Global /\ rejected
    /\ \A s \in Subs : pc[s] = "idle"
    /\ regCalls = 1 /\ calls = 1
    /\ dummySyscallEventCount = 0
    /\ dummySyscallEventID = 0
    /\ unregCalls = 0

\* ---- C5 ----------------------------------------------------------------
\* C5: a release that finds the count at 0 or below (a release beyond the
\* acquired ones, after the dummy has been unregistered) issues no engine
\* call, and the closure never makes more UnregisterEvent calls than there
\* were 0->1 acquires.
C5_OverReleaseIsSilent ==
    /\ [](unregCalls + Cardinality({s \in Subs : pc[s] = "r_unreg"})
            <= regCalls + Cardinality({s \in Subs : pc[s] = "g_reg"}))
    /\ [][\A s \in Subs :
            (pc[s] = "r_add" /\ pc'[s] # "r_add" /\ dummySyscallEventCount <= 0)
               => /\ pc'[s] # "r_unreg"
                  /\ events' = events
                  /\ unregCalls' = unregCalls
       ]_vars

C5_Witness ==
    /\ over >= 1
    /\ \A s \in Subs : pc[s] \in {"idle", "closed"}
    /\ dummySyscallEventCount < 0
    /\ regCalls = 1 /\ unregCalls = 1
    /\ LiveGlobalDummies = {}

\* ---- C6 ----------------------------------------------------------------
\* C6: dummySyscallEventCount is never negative; RegisterTracepoint for the
\* dummy is called only by the acquire that moved the count 0->1 and
\* UnregisterEvent only by the release that moved it 1->0; no other step
\* changes the engine's dummy registrations.
C6_OnlyEdgeTransitionsCallEngine ==
    /\ [](dummySyscallEventCount >= 0)
    /\ [][/\ \A s \in Subs :
               /\ (pc'[s] = "g_reg" /\ pc[s] # "g_reg")
                    => (dummySyscallEventCount = 0 /\ dummySyscallEventCount' = 1)
               /\ (pc'[s] = "r_unreg" /\ pc[s] # "r_unreg")
                    => (dummySyscallEventCount = 1 /\ dummySyscallEventCount' = 0)
          /\ regCalls' # regCalls
               => \E s \in Subs : pc[s] = "g_reg" /\ pc'[s] # "g_reg"
          /\ unregCalls' # unregCalls
               => \E s \in Subs : pc[s] = "r_unreg" /\ pc'[s] # "r_unreg"
          /\ LiveGlobalDummies' # LiveGlobalDummies
               => \E s \in Subs : /\ pc[s] \in {"g_reg", "r_unreg"}
                                  /\ pc'[s] # pc[s]
       ]_vars

C6_Witness ==
    /\ Global
    /\ dummySyscallEventCount = 0
    /\ regCalls = 2 /\ unregCalls = 2
    /\ LiveGlobalDummies = {}

\* ---- C7 ----------------------------------------------------------------
\* C7: initSyscallNames runs at most once (exactly once as soon as a caller
\* is past syscallOnce.Do), no caller is past syscallOnce.Do before it has
\* finished, all callers read one and the same (enter, exit) pair, and the
\* pair is never written again once syscallOnce is done.
C7_NamesResolvedOnce ==
    /\ [](/\ initRuns <= 1
          /\ \A s \in Subs : PastOnce(s) => (onceState = "done" /\ initRuns = 1)
          /\ Cardinality(namesRead) <= 1
          /\ namesRead # {} => namesRead = {NamePair})
    /\ [][onceState = "done"
            => /\ syscallEnterName' = syscallEnterName
               /\ syscallExitName' = syscallExitName
               /\ initRuns' = initRuns
               /\ onceState' = "done"]_vars

C7_Witness ==
    /\ calls = NSubs
    /\ \A s \in Subs : pc[s] \in {"dummy", "exit_tp"}
    /\ initRuns = 1
    /\ namesRead = {NamePair}

\* ---- C8 ----------------------------------------------------------------
\* C8: every pair a caller can see comes from one namespace: the raw pair
\* when raw_syscalls/sys_enter exists (whether or not syscalls/sys_enter
\* exists too), the syscalls pair otherwise.
C8_NamesFromOneNamespace ==
    /\ namesRead \subseteq {ExpectedNames}
    /\ onceState = "done" => NamePair = ExpectedNames
    /\ \A e \in events :
         e.kind \in {"gdummy", "ldummy", "exit"}
            => e.name \in {ExpectedNames[1], ExpectedNames[2]}

C8_Witness ==
    /\ ~rawExists /\ sysExists
    /\ onceState = "done"
    /\ namesRead = {<<SysEnterName, SysExitName>>}
    /\ \E e \in events : e.kind = "exit" /\ e.name = SysExitName

\* ---- C9 ----------------------------------------------------------------
\* C9: when neither sys_enter tracepoint exists, name resolution ends the
\* process: syscallOnce never completes, no caller gets past it, no
\* registration request reaches the engine and the dummy count stays 0.
C9_NoTracepointAborts ==
    (~rawExists /\ ~sysExists)
        => /\ onceState # "done"
           /\ \A s \in Subs : ~PastOnce(s) /\ pc[s] # "init_ret"
           /\ regCalls = 0 /\ ~requested /\ events = {}
           /\ dummySyscallEventCount = 0
           /\ namesRead = {}

C9_Witness ==
    /\ aborted
    /\ ~rawExists /\ ~sysExists
    /\ \E s \in Subs : pc[s] = "init3"
    /\ \E s \in Subs : pc[s] = "once"

\* ---- C10 ---------------------------------------------------------------
\* C10: in RegisterSyscallEnterEventFilter the kprobe request is submitted
\* only after name resolution has finished and the dummy acquire of the same
\* call has returned success; a call whose acquire failed returns without
\* submitting a kprobe request.
C10_KprobeAfterAcquire ==
    /\ [](\A s \in Subs :
            /\ pc[s] \in {"dummy", "g_reg", "g_store", "g_rollback", "l_reg",
                          "kprobe"} => onceState = "done"
            /\ pc[s] = "kprobe"
                 => /\ result[s]
                    /\ Global => dummySyscallEventCount >= 1)
    /\ [][\A s \in Subs :
            /\ (\E e \in events' \ events : e.kind = "kprobe" /\ e.owner = s)
                 => (pc[s] = "kprobe" /\ result[s])
            /\ (pc[s] \in {"dummy", "g_rollback", "l_reg"} /\ pc'[s] # pc[s]
                  /\ ~result'[s] /\ pc'[s] \notin {"g_reg", "l_reg"})
                 => (pc'[s] = "idle" /\ events' = events /\ sinks' = sinks)
       ]_vars

C10_Witness ==
    \E s \in Subs :
        /\ \E e \in events : e.kind = "kprobe" /\ e.owner = s
        /\ \E es \in sinks[s] : TRUE
        /\ pc[s] = "idle"
        /\ onceState = "done"

\* ---- C11 ---------------------------------------------------------------
\* C11: on kernel major >= 3, when the kprobe registration fails after the
\* dummy acquire succeeded, the call runs the release closure once before it
\* returns: the count is decremented by one, the global dummy probe is
\* unregistered when that decrement reaches 0, and no event sink (hence no
\* release hook) is attached for the failed probe.
C11_FailedKprobeReleasesOnce ==
    [][\A s \in Subs :
         /\ (pc[s] = "kprobe" /\ pc'[s] # "kprobe" /\ major >= 3
               /\ events' = events)
              => /\ pc'[s] = "r_read"
                 /\ retpc'[s] = "idle"
                 /\ sinks' = sinks
                 /\ dummySyscallEventCount' = dummySyscallEventCount
         /\ (pc[s] = "r_read" /\ retpc[s] = "idle" /\ pc'[s] # "r_read")
              => /\ pc'[s] = "r_add"
                 /\ sinks' = sinks
                 /\ dummySyscallEventCount' = dummySyscallEventCount
         /\ (pc[s] = "r_add" /\ retpc[s] = "idle" /\ pc'[s] # "r_add")
              => /\ dummySyscallEventCount' = dummySyscallEventCount - 1
                 /\ pc'[s] = IF dummySyscallEventCount' = 0
                             THEN "r_unreg" ELSE "idle"
                 /\ sinks' = sinks
                 /\ events' = events
         /\ (pc[s] = "r_unreg" /\ retpc[s] = "idle" /\ pc'[s] # "r_unreg")
              => /\ pc'[s] = "idle"
                 /\ sinks' = sinks
                 /\ dummySyscallEventCount' = dummySyscallEventCount
                 /\ unregCalls' = unregCalls + 1
                 /\ LiveGlobalDummies # {}
                      => LiveGlobalDummies' # LiveGlobalDummies
    ]_vars

\* ---- C12 ---------------------------------------------------------------
\* C12: on kernel major < 3 no event sink carries a release hook and the
\* closure is never invoked, so a local dummy tracepoint, once registered,
\* stays registered whatever registrations, kprobe failures and teardowns
\* follow (two subscriptions registered, one of them torn down: both local
\* dummies are still live).
C12_LocalDummyNeverUnregistered ==
    /\ [](major < 3
            => /\ \A s \in Subs : \A es \in sinks[s] : ~es.hook
               /\ \A s \in Subs : pc[s] \notin ReleasePCs
               /\ \A s \in Subs : tdReleases[s] = 0
               /\ unregCalls = 0
               /\ ~relStarted)
    /\ [][major < 3 => LiveLocalDummies \subseteq LiveLocalDummies']_vars

C12_Witness ==
    /\ major < 3
    /\ Cardinality(LiveLocalDummies) = 2
    /\ \E s \in Subs :
         /\ pc[s] = "closed"
         /\ \E e \in LiveLocalDummies : e.owner = s
         /\ \A e \in events : e.owner = s => e.kind = "ldummy"
    /\ \E s \in Subs : pc[s] = "idle" /\ sinks[s] # {}

\* ---- C13 ---------------------------------------------------------------
\* C13: the dummy strategy is chosen by the kernel major alone.  On major
\* >= 3 the dummy is registered under the container cache's event group, no
\* local dummy exists, and no step of the acquire creates an event group or
\* writes a subscription's eventGroupID.  On major < 3 the dummy is
\* registered under the owning subscription's event group and
\* dummySyscallEventCount and dummySyscallEventID are never read or written.
C13_StrategyByKernelMajor ==
    /\ [](/\ major >= 3
            => /\ LiveLocalDummies = {}
               /\ \A e \in LiveGlobalDummies :
                    e.group = ContainerCacheEventGroupID
               /\ \A s \in Subs : pc[s] # "l_reg"
          /\ major < 3
            => /\ LiveGlobalDummies = {}
               /\ \A e \in LiveLocalDummies :
                    /\ e.group = eventGroupID[e.owner]
                    /\ e.group # NoEventGroup
                    /\ e.group # ContainerCacheEventGroupID
               /\ dummySyscallEventCount = 0
               /\ dummySyscallEventID = 0
               /\ regCalls = 0
               /\ \A s \in Subs : pc[s] \notin AcquirePCs \cup ReleasePCs)
    /\ [][\A s \in Subs :
            (major >= 3 /\ pc[s] \in {"dummy"} \cup AcquirePCs
               /\ pc'[s] # pc[s])
              => eventGroupID' = eventGroupID
       ]_vars

C13_Witness ==
    /\ major >= 3
    /\ \E e \in LiveGlobalDummies : e.group = ContainerCacheEventGroupID
    /\ \E s \in Subs : pc[s] = "kprobe" /\ eventGroupID[s] = NoEventGroup
    /\ \A s \in Subs : sinks[s] = {}

\* ---- C14 ---------------------------------------------------------------
\* C14: the syscall-enter kprobe is placed on syscall_trace_enter_phase1
\* when that symbol is available and on syscall_trace_enter otherwise; in
\* both cases, and whatever the kernel major and the dummy strategy, it is
\* registered with the same fetch-arg string, the same handler and
\* isReturn = false.
C14_KprobeSymbolFallback ==
    \A e \in events :
        e.kind = "kprobe"
          => /\ e.name = IF symAvail THEN "syscall_trace_enter_phase1"
                                     ELSE "syscall_trace_enter"
             /\ e.fetchargs = syscallEnterKprobeFetchargs
             /\ e.handler = "handleSyscallTraceEnter"
             /\ e.isReturn = FALSE

C14_Witness ==
    /\ major >= 3
    /\ ~symAvail
    /\ \E e \in events :
         /\ e.kind = "kprobe"
         /\ e.name = "syscall_trace_enter"
         /\ e.fetchargs = syscallEnterKprobeFetchargs

Decoded(hs) == handled /\ sample.handler \in hs /\ sample.initOK

\* The member of event e that the decoder fills from the sample field f.
EventField(e, f) ==
    CASE f = "id" -> e.ID
      [] f = "arg0" -> e.Arguments[1]
      [] f = "arg1" -> e.Arguments[2]
      [] f = "arg2" -> e.Arguments[3]
      [] f = "arg3" -> e.Arguments[4]
      [] f = "arg4" -> e.Arguments[5]
      [] f = "arg5" -> e.Arguments[6]
      [] f = "ret" -> IF e.kind = "SyscallExit" THEN e.Return
                                                ELSE e.result.Return
      [] f = "fd" -> e.attempt.FD
      [] f = "backlog" -> e.Backlog
      [] f = "sa_family" -> e.address.Family
      [] f = "sin_port" -> e.address.IPv4Port
      [] f = "sin_addr" -> e.address.IPv4Address
      [] f = "sun_path" -> e.address.UnixPath
      [] f = "sin6_port" -> e.address.IPv6Port
      [] f = "sin6_addr_high" -> e.address.IPv6AddressHigh
      [] f = "sin6_addr_low" -> e.address.IPv6AddressLow

ZeroValue(f) == IF f = "sun_path" THEN "" ELSE 0

\* The address family whose representation the sample field f belongs to
\* (-1: f is not part of an address representation).
FamilyOfField(f) ==
    CASE f = "sun_path" -> 1
      [] f \in {"sin_addr", "sin_port"} -> 2
      [] f \in {"sin6_addr_high", "sin6_addr_low", "sin6_port"} -> 10
      [] OTHER -> -1

\* The family the sample carries (0 when sa_family is missing).
FamilyOfSample ==
    IF "sa_family" \in DOMAIN sample.fields THEN sample.fields["sa_family"]
                                             ELSE 0

\* ---- C16 ---------------------------------------------------------------
\* C16: every sample handler calls DispatchEvent exactly once for a sample
\* whose InitWithSample succeeds and not at all for one whose InitWithSample
\* fails; nothing is dispatched before the handler runs and never more than
\* one event per sample.
C16_DispatchIffInitialized ==
    sample.handler \in EventHandlers
        => /\ ~handled => dispatched = <<>>
           /\ (handled /\ sample.initOK) => Len(dispatched) = 1
           /\ (handled /\ ~sample.initOK) => dispatched = <<>>

C16_Witness ==
    /\ handled
    /\ sample.handler = "handleSysExitConnect"
    /\ ~sample.initOK
    /\ "ret" \in DOMAIN sample.fields
    /\ dispatched = <<>>

\* ---- C17 ---------------------------------------------------------------
\* C17: in a bind, connect or sendto attempt event the address members are
\* fixed by sa_family alone: AF_INET (2) fills only IPv4Address and IPv4Port,
\* AF_INET6 (10) only the IPv6 members, AF_LOCAL (1) only UnixPath, any other
\* family and a missing sa_family fill none; the members of the other
\* families are zero even when the sample carries values for them.
C17_AddressExclusivity ==
    Decoded(AddressHandlers)
        => LET a == dispatched[1].address
               fam == FamilyOfSample
               f == sample.fields
               Val(n, zero) == IF n \in DOMAIN f THEN f[n] ELSE zero
           IN  /\ Len(dispatched) = 1
               /\ a.Family = fam
               /\ a.UnixPath = IF fam = 1 THEN Val("sun_path", "") ELSE ""
               /\ a.IPv4Address = IF fam = 2 THEN Val("sin_addr", 0) ELSE 0
               /\ a.IPv4Port = IF fam = 2 THEN Val("sin_port", 0) ELSE 0
               /\ a.IPv6AddressHigh
                    = IF fam = 10 THEN Val("sin6_addr_high", 0) ELSE 0
               /\ a.IPv6AddressLow
                    = IF fam = 10 THEN Val("sin6_addr_low", 0) ELSE 0
               /\ a.IPv6Port = IF fam = 10 THEN Val("sin6_port", 0) ELSE 0

C17_Witness ==
    /\ Decoded({"handleSysBind"})
    /\ DOMAIN sample.fields = NetworkAttemptWithAddressEventTypes
    /\ sample.fields["sa_family"] = 2
    /\ sample.fields["sin_port"] = 80
    /\ sample.fields["sin_addr"] = 2130706433
    /\ sample.fields["sin6_port"] = 443
    /\ dispatched[1].address
         = [Family |-> 2, UnixPath |-> "", IPv4Address |-> 2130706433,
            IPv4Port |-> 80, IPv6AddressHigh |-> 0, IPv6AddressLow |-> 0,
            IPv6Port |-> 0]

\* ---- C18 ---------------------------------------------------------------
\* C18 as stated: for every event kind and every subset of its declared
\* fields missing from the sample, the handler (the envelope initialised)
\* dispatches exactly one event in which each missing field is the zero
\* value of its type and each present field is the sample's value.
C18_Original ==
    Decoded(EventHandlers)
        => /\ Len(dispatched) = 1
           /\ \A f \in DeclaredFields(sample.handler) :
                EventField(dispatched[1], f)
                  = IF f \in DOMAIN sample.fields THEN sample.fields[f]
                                                  ELSE ZeroValue(f)

\* C18 (amended): for every event kind and every subset of its declared
\* fields missing from the sample, the handler (the envelope initialised)
\* dispatches exactly one event in which each missing field is the zero
\* value of its type and each present field is the sample's value, except
\* that a present address field of a family other than the sample's
\* sa_family is the zero value too.
C18_DecodeTotal ==
    Decoded(EventHandlers)
        => /\ Len(dispatched) = 1
           /\ \A f \in DeclaredFields(sample.handler) :
                EventField(dispatched[1], f)
                  = IF /\ f \in DOMAIN sample.fields
                       /\ FamilyOfField(f) \in {-1, FamilyOfSample}
                    THEN sample.fields[f]
                    ELSE ZeroValue(f)

C18_Witness ==
    /\ Decoded({"handleSysEnterListen"})
    /\ DOMAIN sample.fields = {"backlog"}
    /\ dispatched = <<[kind |-> "NetworkListenAttempt",
                       attempt |-> [FD |-> 0],
                       Backlog |-> sample.fields["backlog"]]>>
    /\ sample.fields["backlog"] # 0

\* ---- C19 ---------------------------------------------------------------
\* C19: a syscall-enter sample with id and arg0..arg5 is decoded to an
\* event with ID = id and Arguments = [arg0, ..., arg5] in that order; a
\* syscall-exit sample with id and ret to an event with ID = id and
\* Return = ret.
C19_SyscallFieldsInOrder ==
    /\ (Decoded({"handleSyscallTraceEnter"})
          /\ DOMAIN sample.fields = SyscallEnterEventTypes)
         => dispatched
              = <<[kind |-> "SyscallEnter",
                   ID |-> sample.fields["id"],
                   Arguments |-> <<sample.fields["arg0"],
                                   sample.fields["arg1"],
                                   sample.fields["arg2"],
                                   sample.fields["arg3"],
                                   sample.fields["arg4"],
                                   sample.fields["arg5"]>>]>>
    /\ (Decoded({"handleSysExit"})
          /\ DOMAIN sample.fields = SyscallExitEventTypes)
         => dispatched
              = <<[kind |-> "SyscallExit",
                   ID |-> sample.fields["id"],
                   Return |-> sample.fields["ret"]]>>

C19_Witness ==
    /\ Decoded({"handleSyscallTraceEnter"})
    /\ DOMAIN sample.fields = SyscallEnterEventTypes
    /\ sample.fields["id"] = 59
    /\ dispatched[1].ID = 59
    /\ dispatched[1].Arguments = <<101, 102, 103, 104, 105, 106>>

\* ---- C20 ---------------------------------------------------------------
\* The samples a dummy tracepoint could be handed: with or without the
\* syscall id, the id of the filter included.
DummySamples ==
    {Sample(h, present, 0, alt, ok) :
        h \in {"handleDummySysEnter"}, present \in SUBSET {"id", "arg0"},
        alt \in BOOLEAN, ok \in BOOLEAN}

\* C20: both strategies register the dummy tracepoint with the filter
\* "id == 0x7fffffff" and the handler handleDummySysEnter, and that handler,
\* whatever sample it is called with, makes no DispatchEvent call (and, being
\* empty, changes no subscription or sensor state).
C20_DummyNeverDelivers ==
    \A e \in LiveGlobalDummies \cup LiveLocalDummies :
        /\ e.filter = "id == 0x7fffffff"
        /\ e.handler = "handleDummySysEnter"
        /\ \A smp \in DummySamples : RunHandler(e.handler, smp) = <<>>

C20_Witness ==
    /\ \E e \in LiveGlobalDummies : e.filter = DummyFilter
    /\ \E e \in events : e.kind = "kprobe"
    /\ dispatched = <<>>

\* ---- C21 ---------------------------------------------------------------
\* The engine events registered on behalf of subscription s.
OwnedEvents(s) == {e \in events : e.owner = s}

\* Subscription s is on a failure path: its dummy registration was rejected
\* or its kprobe request failed and it is running the release for it.
OnFailurePath(s) ==
    \/ pc[s] = "g_rollback"
    \/ pc[s] \in ReleasePCs /\ retpc[s] = "idle"

\* C21: a step taken for one subscription never changes another
\* subscription's event group id, event sinks or registered probes: the
\* private state of a subscription changes only in that subscription's own
\* registration and teardown steps, and of at most one subscription per
\* step.  A failure path of subscription A (rejected dummy registration,
\* failed kprobe and its release) leaves what another subscription B has
\* acquired intact: B's holds are unchanged, the count still covers them,
\* and the global dummy B depends on is registered when A's step is done.
C21_SubscriptionsAreIsolated ==
    /\ [](major >= 3
            => \A s \in Subs : dummySyscallEventCount >= Holders(s))
    /\ [][\A s \in Subs :
            /\ (\/ eventGroupID'[s] # eventGroupID[s]
                \/ sinks'[s] # sinks[s]
                \/ OwnedEvents(s)' # OwnedEvents(s))
                 => /\ pc[s] \in {"dummy", "l_reg", "kprobe", "exit_tp", "td"}
                    /\ \A t \in Subs \ {s} :
                         /\ pc'[t] = pc[t]
                         /\ eventGroupID'[t] = eventGroupID[t]
                         /\ sinks'[t] = sinks[t]
                         /\ OwnedEvents(t)' = OwnedEvents(t)
            /\ (OnFailurePath(s) /\ pc'[s] # pc[s])
                 => \A t \in Subs \ {s} :
                      /\ eventGroupID'[t] = eventGroupID[t]
                      /\ sinks'[t] = sinks[t]
                      /\ OwnedEvents(t)' = OwnedEvents(t)
                      /\ Holders(t)' = Holders(t)
                      /\ (major >= 3 /\ Holders(t) > 0)
                           => LiveGlobalDummies' # {}
       ]_vars

\* ---- C22 ---------------------------------------------------------------
\* The event sinks of s that carry the release hook.
HookedSinks(s) == Cardinality({es \in sinks[s] : es.hook})

C23_UnregisterPassesLiveID ==
    [][\A s \in Subs :
         (major >= 3 /\ pc[s] = "r_unreg" /\ pc'[s] # "r_unreg")
           => /\ relID[s] # 0
              /\ \E e \in LiveGlobalDummies : e.id = relID[s]
    ]_vars

\* ---- C24 ---------------------------------------------------------------
\* C24: on kernel major >= 3, in every quiescent state (no call in flight,
\* every successful acquire released) dummySyscallEventCount is 0 and no
\* dummy tracepoint registration is live in the engine, i.e. every dummy
\* registration that succeeded has been undone by an UnregisterEvent call
\* for its id.
C24_QuiescentMeansNoDummy ==
    (/\ major >= 3
     /\ \A s \in Subs : pc[s] \in {"idle", "closed"}
     /\ \A t \in Subs : \A es \in sinks[t] : ~es.hook)
      => (dummySyscallEventCount = 0 /\ LiveGlobalDummies = {})

\* ---- C25 ---------------------------------------------------------------
\* The acquires that have returned success and whose release has not
\* performed its decrement yet: one per event sink carrying the hook, one
\* per call between its acquire and the decrement of its own release.
Held ==
    Cardinality(UNION {{<<s, es>> : es \in {e \in sinks[s] : e.hook}} :
                       s \in Subs})
      + Cardinality({s \in Subs : pc[s] \in {"kprobe", "r_read", "r_add"}})

\* The acquires between their increment and their return.
InFlight == Cardinality({s \in Subs : pc[s] \in AcquirePCs})

\* C25: on kernel major >= 3 (every successful acquire being released at
\* most once) dummySyscallEventCount equals, in every state, the number of
\* acquires that have returned success and are not released yet plus the
\* number of acquires between their increment and their return.
C25_CountIsHeldPlusInFlight ==
    major >= 3
      => dummySyscallEventCount = Held + InFlight

C25_Witness ==
    /\ major >= 3
    /\ dummySyscallEventCount = 2
    /\ \E s, t \in Subs :
         /\ pc[s] = "g_reg"
         /\ pc[t] = "r_add" /\ retpc[t] = "idle"

\* ---- C26 ---------------------------------------------------------------
\* The form projects/PROJECT_ID/topics/TOPIC_ID, read off the path itself:
\* "projects", a separator, an id without separator, a separator, "topics",
\* a separator, an id without separator.
WellFormedPath(p) ==
    \E i \in 3..Len(p) :
        /\ i + 2 <= Len(p)
        /\ p[1] = "projects" /\ p[2] = "/"
        /\ p[i] = "/" /\ p[i + 1] = "topics" /\ p[i + 2] = "/"
        /\ \A j \in 3..(i - 1) : p[j] # "/"
        /\ \A j \in (i + 3)..Len(p) : p[j] # "/"

\* main never got an answer from connectToPubsubTopic: it panicked inside.
CrashedInConnect == mpc = "panic" /\ ~connectReturned

\* C26: for every path that is not of the form
\* projects/PROJECT_ID/topics/TOPIC_ID, paths with fewer than four segments
\* included, connectToPubsubTopic does not crash and returns a non-nil error.
C26_MalformedPathIsAnError ==
    ~WellFormedPath(pubsubPath)
      => /\ ~CrashedInConnect
         /\ connectReturned => err # NilError

\* ---- C27 ---------------------------------------------------------------
\* C27: whenever connectToPubsubTopic returns a nil error the topic it
\* returns is not nil, so the sensor is started, and the event callback run,
\* only with a usable topic: nothing is ever published to a nil topic.
C27_CallbackHasATopic ==
    /\ (connectReturned /\ err = NilError) => ~topic.nil
    /\ mpc \in {"sensor", "running"} => ~topic.nil
    /\ ~nilPublish

====
